---- MODULE Spec2Model ----
(***************************************************************************)
(* Model of source/main.cpp of Switch-NRO-Launcher.                        *)
(*                                                                         *)
(* Spec / FairSpec : one invocation of downloadAsset: the transfer thread  *)
(*   (the lambda of lines 332-389) running concurrently with the polling   *)
(*   loop of lines 399-414, the join and the status line (416-425).        *)
(*   libcurl is the environment: it delivers bytes to fwrite, calls        *)
(*   curlXferInfoCallback and makes curl_easy_perform return a code.       *)
(* SpecUrl : the job-artifact URL rewrite of lines 341-358 applied to      *)
(*   asset URLs drawn from a bounded set.                                  *)
(*                                                                         *)
(* Strings are sequences of one-character strings, positions are 0-based   *)
(* as in std::string, and std::string::npos is NPOS.                       *)
(***************************************************************************)
EXTENDS Integers, Sequences, FiniteSets, TLC

\* ------------------------------------------------------------------ bounds
\* largest body size, in chunks, the transport delivers
MaxBytes == 2
\* most progress callbacks libcurl makes before the transfer ends
MaxTicks == 2
\* most segments of a project path in the URLs tried
MaxSegs == 3
\* most elements of a "links" array in the JSON documents tried
MaxLinks == 1
\* most elements of a "sources" array in the JSON documents tried
MaxSources == 1
\* most elements of the top-level array built from the small items
MaxItems == 2
\* most releases of the catalogs main is run on
MaxReleases == 2
\* most assets of a release of those catalogs
MaxAssets == 2

VARIABLES
  tpc,        \* position of the transfer thread (lambda, lines 332-389)
  ppc,        \* position of downloadAsset's own thread (lines 399-435)
  done,       \* std::atomic<bool> done     (line 314)
  canceled,   \* std::atomic<bool> canceled (line 315)
  dl_total,   \* std::atomic<curl_off_t> dl_total (line 316)
  dl_now,     \* std::atomic<curl_off_t> dl_now   (line 317)
  res,        \* CURLcode res of line 380 ("none" until perform returns)
  fileExists, \* the destination file sdmc:/downloads/<filename> exists
  fileBytes,  \* bytes the destination file holds
  size,       \* environment: length of the response body
  known,      \* environment: the server reports a content length
  recv,       \* environment: bytes libcurl has received so far
  ticks,      \* environment: progress callbacks made so far
  applet,     \* environment: appletMainLoop() still returns true
  exited,     \* the process has ended through std::exit
  status,     \* the status line printed by lines 419-425
  cancelledInFlight, \* history: canceled was first set while
                     \* curl_easy_perform was running with bytes received
  asset,      \* SpecUrl: the parts the asset URL was built from
  url,        \* SpecUrl: a.url
  out,        \* SpecUrl: the url handed to CURLOPT_URL (line 360)
  upc,        \* SpecUrl, SpecFile: position, "start" or "done"
  filename,   \* SpecFile: std::string filename of downloadAsset (line 321)
  mpc,        \* SpecMain: position of main (lines 440-548)
  envToken,   \* SpecMain: getenv("GITLAB_PRIVATE_TOKEN") (line 457)
  hdrToken,   \* SpecMain: GITLAB_PRIVATE_TOKEN of token.h (line 20)
  token,      \* SpecMain: const std::string token (line 458)
  gets,       \* SpecMain: HTTP requests issued so far
  httpCode,   \* SpecMain: long code of fetchReleases (line 215)
  body,       \* SpecMain, SpecParse: the response body / rawJson
  parsed,     \* SpecMain: times the body was handed to parseReleases
  releases,   \* SpecMain, SpecParse: the std::vector<Release>
  current,    \* SpecMain: int current (line 504)
  sel,        \* SpecMain: int sel of runMenu (line 231)
  items,      \* SpecMain: items.size() of runMenu
  btn,        \* SpecMain: u64 btn of main's loop (line 512), a set
  dlCall,     \* SpecMain: <<current, choice>> of the last downloadAsset call
  screen,     \* SpecMain: what the console shows
  exitCode    \* SpecMain: value returned by main, -1 while running

dvars == <<tpc, ppc, done, canceled, dl_total, dl_now, res, fileExists,
           fileBytes, size, known, recv, ticks, applet, exited, status,
           cancelledInFlight>>
uvars == <<asset, url, out, upc>>
mvars == <<mpc, envToken, hdrToken, token, gets, httpCode, body, parsed,
           releases, current, sel, items, btn, dlCall, screen, exitCode>>
vars == <<dvars, uvars, filename, mvars>>

\* ------------------------------------------------------- pure definitions

\* curlXferInfoCallback's return value (line 304)
curlXferInfoReturn(c) == IF c THEN 1 ELSE 0

\* condition of line 383: remove the destination file
ShouldRemove(r, c) == r # "CURLE_OK" \/ c

\* the status line of lines 419-425
Outcome_IgnoreCancel(c, tot, now) ==
  IF tot > 0 /\ now = tot THEN "Succeeded"
  ELSE IF c THEN "Cancelled" ELSE "Failed"
Outcome_NoEq(c, tot, now) ==
  IF c THEN "Cancelled"
  ELSE IF tot > 0 /\ now < tot THEN "Succeeded"
  ELSE "Failed"
Outcome(c, tot, now) ==
  IF c THEN "Cancelled"
  ELSE IF tot > 0 /\ now = tot THEN "Succeeded"
  ELSE "Failed"

\* dltotal as libcurl passes it to the callback: 0 while unknown
Dltotal == IF known THEN size ELSE 0

\* ------------------------------------------------------ transfer thread

\* what every step of the download leaves alone
EnvSame == UNCHANGED <<size, known, uvars, filename, mvars>>

\* CurlEasy curl; (line 333, constructor lines 48-53): a null handle ends
\* the process with std::exit(1)
Thread_CurlEasy ==
  /\ ~exited /\ tpc = "init"
  /\ \E handle \in BOOLEAN :
       IF handle THEN /\ tpc' = "open" /\ exited' = exited
                 ELSE /\ tpc' = tpc /\ exited' = TRUE
  /\ UNCHANGED <<ppc, done, canceled, dl_total, dl_now, res, fileExists,
                 fileBytes, recv, ticks, applet, status, cancelledInFlight>>
  /\ EnvSame

\* lines 367-376: fopen(out, "wb"); on failure done = true and return
Thread_fopen_ForgetsDone ==
  /\ ~exited /\ tpc = "open"
  /\ \E fp \in BOOLEAN :
       IF fp THEN /\ fileExists' = TRUE /\ fileBytes' = 0
                  /\ tpc' = "perform" /\ done' = done
             ELSE /\ UNCHANGED <<fileExists, fileBytes>>
                  /\ done' = done /\ tpc' = "cleanup"
  /\ UNCHANGED <<ppc, canceled, dl_total, dl_now, res, recv, ticks, applet,
                 exited, status, cancelledInFlight>>
  /\ EnvSame
Thread_fopen ==
  /\ ~exited /\ tpc = "open"
  /\ \E fp \in BOOLEAN :
       IF fp THEN /\ fileExists' = TRUE /\ fileBytes' = 0
                  /\ tpc' = "perform" /\ done' = done
             ELSE /\ UNCHANGED <<fileExists, fileBytes>>
                  /\ done' = TRUE /\ tpc' = "cleanup"
  /\ UNCHANGED <<ppc, canceled, dl_total, dl_now, res, recv, ticks, applet,
                 exited, status, cancelledInFlight>>
  /\ EnvSame

\* curl_easy_perform (line 380) receives a chunk and hands it to fwrite
\* (line 378); a short write makes perform return CURLE_WRITE_ERROR, and
\* libcurl may still make its closing progress callback
Thread_perform_write ==
  /\ ~exited /\ tpc = "perform" /\ recv < size
  /\ recv' = recv + 1
  /\ \E written \in BOOLEAN :
       IF written
       THEN /\ fileBytes' = fileBytes + 1
            /\ UNCHANGED <<tpc, res, dl_total, dl_now>>
       ELSE /\ fileBytes' = fileBytes
            /\ res' = "CURLE_WRITE_ERROR" /\ tpc' = "check"
            /\ \E closing \in BOOLEAN :
                 IF closing THEN /\ dl_total' = Dltotal /\ dl_now' = recv'
                            ELSE UNCHANGED <<dl_total, dl_now>>
  /\ UNCHANGED <<ppc, done, canceled, fileExists, ticks, applet, exited,
                 status, cancelledInFlight>>
  /\ EnvSame

\* curl_easy_perform calls curlXferInfoCallback (lines 299-305): both
\* counters are stored, and a non-zero return aborts the transfer
Thread_perform_xferinfo ==
  /\ ~exited /\ tpc = "perform" /\ ticks < MaxTicks
  /\ ticks' = ticks + 1
  /\ dl_total' = Dltotal /\ dl_now' = recv
  /\ IF curlXferInfoReturn(canceled) # 0
     THEN /\ res' = "CURLE_ABORTED_BY_CALLBACK" /\ tpc' = "check"
     ELSE UNCHANGED <<tpc, res>>
  /\ UNCHANGED <<ppc, done, canceled, fileExists, fileBytes, recv, applet,
                 exited, status, cancelledInFlight>>
  /\ EnvSame

\* curl_easy_perform returns a transport error (line 380), at any point of
\* the transfer; libcurl may still make its closing progress callback
Thread_perform_error ==
  /\ ~exited /\ tpc = "perform"
  /\ res' = "CURLE_RECV_ERROR" /\ tpc' = "check"
  /\ \E closing \in BOOLEAN :
       IF closing THEN /\ dl_total' = Dltotal /\ dl_now' = recv
                  ELSE UNCHANGED <<dl_total, dl_now>>
  /\ UNCHANGED <<ppc, done, canceled, fileExists,
                 fileBytes, recv, ticks, applet, exited, status,
                 cancelledInFlight>>
  /\ EnvSame

\* the body is complete: libcurl makes its closing progress callback
\* (lines 299-305) and curl_easy_perform returns (line 380)
Thread_perform_end ==
  /\ ~exited /\ tpc = "perform" /\ recv = size
  /\ dl_total' = Dltotal /\ dl_now' = recv
  /\ res' = IF curlXferInfoReturn(canceled) # 0
            THEN "CURLE_ABORTED_BY_CALLBACK" ELSE "CURLE_OK"
  /\ tpc' = "check"
  /\ UNCHANGED <<ppc, done, canceled, fileExists, fileBytes, recv, ticks,
                 applet, exited, status, cancelledInFlight>>
  /\ EnvSame

\* lines 381-384: fclose(fp); if (res != CURLE_OK || canceled) remove(out)
Thread_remove ==
  /\ ~exited /\ tpc = "check"
  /\ IF ShouldRemove(res, canceled)
     THEN /\ fileExists' = FALSE /\ fileBytes' = 0
     ELSE UNCHANGED <<fileExists, fileBytes>>
  /\ tpc' = "setdone"
  /\ UNCHANGED <<ppc, done, canceled, dl_total, dl_now, res, recv, ticks,
                 applet, exited, status, cancelledInFlight>>
  /\ EnvSame

\* line 386: done = true
Thread_done_ClearsCancel ==
  /\ ~exited /\ tpc = "setdone"
  /\ done' = TRUE /\ canceled' = FALSE /\ tpc' = "cleanup"
  /\ UNCHANGED <<ppc, dl_total, dl_now, res, fileExists, fileBytes,
                 recv, ticks, applet, exited, status, cancelledInFlight>>
  /\ EnvSame
Thread_done ==
  /\ ~exited /\ tpc = "setdone"
  /\ done' = TRUE /\ tpc' = "cleanup"
  /\ UNCHANGED <<ppc, canceled, dl_total, dl_now, res, fileExists, fileBytes,
                 recv, ticks, applet, exited, status, cancelledInFlight>>
  /\ EnvSame

\* lines 373-375 and 387-389: free the header list, destroy curl, return
Thread_return ==
  /\ ~exited /\ tpc = "cleanup"
  /\ tpc' = "exited"
  /\ UNCHANGED <<ppc, done, canceled, dl_total, dl_now, res, fileExists,
                 fileBytes, recv, ticks, applet, exited, status,
                 cancelledInFlight>>
  /\ EnvSame

Thread ==
  \/ Thread_CurlEasy \/ Thread_fopen \/ Thread_perform_write
  \/ Thread_perform_xferinfo \/ Thread_perform_error \/ Thread_perform_end
  \/ Thread_remove \/ Thread_done \/ Thread_return

\* -------------------------------------------------- downloadAsset's thread

\* line 399: while (appletMainLoop() && !done); appletMainLoop() turns
\* false when the applet is asked to exit and stays false
Poll_while_StopOnCancel ==
  /\ ~exited /\ ppc = "cond"
  /\ \E r \in (IF applet THEN BOOLEAN ELSE {FALSE}) :
       /\ applet' = r
       /\ ppc' = IF r /\ ~done /\ ~canceled THEN "body" ELSE "join"
  /\ UNCHANGED <<tpc, done, canceled, dl_total, dl_now, res, fileExists,
                 fileBytes, recv, ticks, exited, status, cancelledInFlight>>
  /\ EnvSame
Poll_while ==
  /\ ~exited /\ ppc = "cond"
  /\ \E r \in (IF applet THEN BOOLEAN ELSE {FALSE}) :
       /\ applet' = r
       /\ ppc' = IF r /\ ~done THEN "body" ELSE "join"
  /\ UNCHANGED <<tpc, done, canceled, dl_total, dl_now, res, fileExists,
                 fileBytes, recv, ticks, exited, status, cancelledInFlight>>
  /\ EnvSame

\* lines 400-413: B sets canceled; the counters are read for the bar
Poll_body ==
  /\ ~exited /\ ppc = "body"
  /\ \E buttonB \in BOOLEAN :
       /\ canceled' = (canceled \/ buttonB)
       /\ cancelledInFlight' =
            (cancelledInFlight
               \/ (buttonB /\ ~canceled /\ tpc = "perform" /\ recv > 0))
  /\ ppc' = "cond"
  /\ UNCHANGED <<tpc, done, dl_total, dl_now, res, fileExists, fileBytes,
                 recv, ticks, applet, exited, status>>
  /\ EnvSame

\* line 416: td.join() returns once the thread's function has returned
Poll_join_OnDone ==
  /\ ~exited /\ ppc = "join" /\ (done \/ tpc = "exited")
  /\ ppc' = "report"
  /\ UNCHANGED <<tpc, done, canceled, dl_total, dl_now, res, fileExists,
                 fileBytes, recv, ticks, applet, exited, status,
                 cancelledInFlight>>
  /\ EnvSame
Poll_join ==
  /\ ~exited /\ ppc = "join" /\ tpc = "exited"
  /\ ppc' = "report"
  /\ UNCHANGED <<tpc, done, canceled, dl_total, dl_now, res, fileExists,
                 fileBytes, recv, ticks, applet, exited, status,
                 cancelledInFlight>>
  /\ EnvSame

\* lines 419-425: the status line
Poll_report ==
  /\ ~exited /\ ppc = "report"
  /\ status' = Outcome(canceled, dl_total, dl_now)
  /\ ppc' = "reported"
  /\ UNCHANGED <<tpc, done, canceled, dl_total, dl_now, res, fileExists,
                 fileBytes, recv, ticks, applet, exited, cancelledInFlight>>
  /\ EnvSame

\* lines 427-436: wait for A (or for the applet to stop) and return
Poll_return ==
  /\ ~exited /\ ppc = "reported"
  /\ \E r \in (IF applet THEN BOOLEAN ELSE {FALSE}) : applet' = r
  /\ ppc' = "returned"
  /\ UNCHANGED <<tpc, done, canceled, dl_total, dl_now, res, fileExists,
                 fileBytes, recv, ticks, exited, status, cancelledInFlight>>
  /\ EnvSame

Poll == Poll_while \/ Poll_body \/ Poll_join \/ Poll_report \/ Poll_return

\* ------------------------------------------------------- the download spec

\* main is not run in the download, URL, filename and parse specs
MainIdle ==
  /\ mpc = "idle" /\ envToken = "" /\ hdrToken = "" /\ token = ""
  /\ gets = 0 /\ httpCode = 0 /\ body = <<>> /\ parsed = 0
  /\ releases = <<>> /\ current = 0 /\ sel = 0 /\ items = 0 /\ btn = {}
  /\ dlCall = <<>> /\ screen = "none" /\ exitCode = -1

\* the asset URL is not part of the download's concurrency
UrlIdle ==
  /\ asset = <<>> /\ url = <<>> /\ out = <<>> /\ upc = "idle"
  /\ filename = <<>> /\ MainIdle

\* lines 314-317 and 332: the locals of downloadAsset and the new thread
Init ==
  /\ tpc = "init" /\ ppc = "cond"
  /\ done = FALSE /\ canceled = FALSE /\ dl_total = 0 /\ dl_now = 0
  /\ res = "none" /\ fileExists = FALSE /\ fileBytes = 0
  /\ size \in 0..MaxBytes /\ known \in BOOLEAN
  /\ recv = 0 /\ ticks = 0 /\ applet = TRUE /\ exited = FALSE
  /\ status = "none" /\ cancelledInFlight = FALSE
  /\ UrlIdle

Next ==
  \/ Thread_CurlEasy \/ Thread_fopen \/ Thread_perform_write
  \/ Thread_perform_xferinfo \/ Thread_perform_error \/ Thread_perform_end
  \/ Thread_remove \/ Thread_done \/ Thread_return
  \/ Poll_while \/ Poll_body \/ Poll_join \/ Poll_report \/ Poll_return

Spec == Init /\ [][Next]_vars

\* both threads are scheduled: a thread that can step eventually does
FairSpec == Init /\ [][Next]_vars /\ WF_vars(Thread) /\ WF_vars(Poll)

\* ---------------------------------------------------------- std::string

\* std::string::npos; size_t arithmetic wraps, so npos + 2 is 1
NPOS == -1

\* s.find(pat, from): the first 0-based position >= from where pat occurs
\* in s, or npos; a from past the end (npos included) finds nothing
Find(s, pat, from) ==
  LET hits == { i \in 0..Len(s) :
                  /\ i >= from /\ i + Len(pat) <= Len(s)
                  /\ SubSeq(s, i + 1, i + Len(pat)) = pat }
  IN  IF from < 0 \/ hits = {} THEN NPOS
      ELSE CHOOSE i \in hits : \A j \in hits : i <= j

\* s.substr(pos, n): at most n characters from pos; a wrapped (negative)
\* n is larger than any string and takes the rest
Substr(s, pos, n) ==
  LET last == IF n < 0 \/ pos + n > Len(s) THEN Len(s) ELSE pos + n
  IN  SubSeq(s, pos + 1, last)

\* s.substr(pos)
SubstrFrom(s, pos) == SubSeq(s, pos + 1, Len(s))

\* urlEncodeProject (lines 114-123): '/' becomes "%2F"
RECURSIVE urlEncodeProject(_)
urlEncodeProject(path) ==
  IF path = <<>> THEN <<>>
  ELSE (IF Head(path) = "/" THEN <<"%", "2", "F">> ELSE <<Head(path)>>)
         \o urlEncodeProject(Tail(path))

\* the string literals of lines 342-355
JobsMarker == <<"/", "-", "/", "j", "o", "b", "s", "/">>
SlashSlash == <<"/", "/">>
Slash == <<"/">>
ArtifactsRaw == <<"/", "a", "r", "t", "i", "f", "a", "c", "t", "s", "/", "r", "a", "w", "/">>
ApiProjects == <<"/", "a", "p", "i", "/", "v", "4", "/", "p", "r", "o", "j", "e", "c", "t", "s", "/">>
JobsSeg == <<"/", "j", "o", "b", "s", "/">>
ArtifactsSeg == <<"/", "a", "r", "t", "i", "f", "a", "c", "t", "s", "/">>

\* line 349: size_t id_start = jobs + 7
IdStartOffset == 7

\* lines 341-358: the url given to CURLOPT_URL for asset url u
RewriteUrl(u) ==
  LET jobs == Find(u, JobsMarker, 0)
  IN  IF jobs = NPOS THEN u
      ELSE
        LET scheme_end == Find(u, SlashSlash, 0) + 2
            domain_end == Find(u, Slash, scheme_end)
        IN  IF ~(domain_end # NPOS /\ domain_end < jobs) THEN u
            ELSE
              LET domain   == Substr(u, 0, domain_end)
                  project  == Substr(u, domain_end + 1, jobs - domain_end - 1)
                  id_start == jobs + IdStartOffset
                  id_end   == Find(u, Slash, id_start)
                  jobId    == Substr(u, id_start, id_end - id_start)
                  raw      == Find(u, ArtifactsRaw, id_end)
              IN  IF raw = NPOS THEN u
                  ELSE domain \o ApiProjects \o urlEncodeProject(project)
                         \o JobsSeg \o jobId \o ArtifactsSeg
                         \o SubstrFrom(u, raw + Len(ArtifactsRaw))

\* ------------------------------------------------------------ the URL spec

\* the asset URLs tried: job-artifact URLs
\* <scheme>://<host>/<project>/-/jobs/<jobId>/artifacts/raw/<rest> and plain
\* URLs <scheme>://<host>/<project>/<rest>
Schemes == { <<"h", "t", "t", "p">>, <<"h", "t", "t", "p", "s">> }
Hosts == { <<"h">> }
Segments == { <<"g">>, <<"p">> }
JobIds == { <<"4">>, <<"4", "2">> }
Rests == { <<"f">>, <<"d", "/", "f">> }

RECURSIVE Paths(_)
Paths(n) ==
  IF n = 1 THEN Segments
  ELSE Paths(n - 1) \cup { q \o <<"/">> \o g : q \in Paths(n - 1), g \in Segments }

\* kinds of asset URL: "job" and "plain" as above; "nested" is a
\* job-artifact URL whose <rest> is itself a path holding the marker,
\* <rest>/-/jobs/<jobId>/artifacts/raw/<rest>; "gap" has a segment between
\* the job id and /artifacts/raw/ and so is not of the job-artifact form
Assets ==
  [ kind : {"job", "plain", "nested", "gap"}, scheme : Schemes, host : Hosts,
    project : Paths(MaxSegs), jobId : JobIds, rest : Rests ]

\* the <rest> of a job-artifact URL of kind "job" or "nested"
RestOf(a) ==
  IF a.kind = "nested"
  THEN a.rest \o JobsMarker \o a.jobId \o ArtifactsRaw \o a.rest
  ELSE a.rest

UrlOf(a) ==
  IF a.kind \in {"job", "nested"}
  THEN a.scheme \o <<":", "/", "/">> \o a.host \o <<"/">> \o a.project
         \o JobsMarker \o a.jobId \o ArtifactsRaw \o RestOf(a)
  ELSE IF a.kind = "gap"
  THEN a.scheme \o <<":", "/", "/">> \o a.host \o <<"/">> \o a.project
         \o JobsMarker \o a.jobId \o <<"/", "x">> \o ArtifactsRaw \o a.rest
  ELSE a.scheme \o <<":", "/", "/">> \o a.host \o <<"/">> \o a.project
         \o <<"/">> \o a.rest

\* the download itself is not run in the URL spec
DownloadIdle ==
  /\ tpc = "idle" /\ ppc = "idle"
  /\ done = FALSE /\ canceled = FALSE /\ dl_total = 0 /\ dl_now = 0
  /\ res = "none" /\ fileExists = FALSE /\ fileBytes = 0
  /\ size = 0 /\ known = FALSE
  /\ recv = 0 /\ ticks = 0 /\ applet = TRUE /\ exited = FALSE
  /\ status = "none" /\ cancelledInFlight = FALSE

InitUrl ==
  /\ asset \in Assets
  /\ url = UrlOf(asset)
  /\ out = <<>> /\ upc = "start"
  /\ DownloadIdle /\ filename = <<>> /\ MainIdle

\* lines 341-360 of the transfer thread
Url_rewrite ==
  /\ upc = "start"
  /\ out' = RewriteUrl(url)
  /\ upc' = "done"
  /\ UNCHANGED <<asset, url, dvars, filename, mvars>>

NextUrl == Url_rewrite

SpecUrl == InitUrl /\ [][NextUrl]_vars

\* <scheme>://<host>/api/v4/projects/<encoded project>/jobs/<jobId>/artifacts/<rest>
ApiUrlOf(a) ==
  a.scheme \o <<":", "/", "/">> \o a.host \o ApiProjects
    \o urlEncodeProject(a.project) \o JobsSeg \o a.jobId \o ArtifactsSeg
    \o a.rest

\* -------------------------------------------------------- the filename spec

\* s.find_last_of(ch): the last 0-based position of ch in s, or npos
FindLastOf(s, ch) ==
  LET hits == { i \in 0..(Len(s) - 1) : s[i + 1] = ch }
  IN  IF hits = {} THEN NPOS ELSE CHOOSE i \in hits : \A j \in hits : j <= i

\* the characters of line 328
Forbidden == { "\\", "/", ":", "*", "?", "\"", "<", ">", "|" }

\* lines 327-330: every forbidden character becomes '_'
Sanitize(s) == [ i \in 1..Len(s) |-> IF s[i] \in Forbidden THEN "_" ELSE s[i] ]

\* lines 321-330: the destination filename for asset url u and name n
DeriveFilename(u, n) ==
  LET tail   == SubstrFrom(u, FindLastOf(u, "/") + 1)
      first  == IF tail = <<>> THEN n ELSE tail
      qm     == Find(first, <<"?">>, 0)
      noQ    == IF qm # NPOS THEN Substr(first, 0, qm) ELSE first
  IN  Sanitize(noQ)

\* the asset URLs tried: https://h/p/<seg> and https://h/p/<seg>?<query>
FileSegs ==
  { <<>>, <<"f">>, <<"f", ".", "z">>, <<"a", ":", "b">>, <<"a", "*", "|">> }
FileQueries ==
  { <<>>, <<"t", "=", "a">>, <<"r", "=", "/", "a">>, <<"a", "?", "b">> }
FileNames == { <<>>, <<"n">>, <<"n", ":", "m">> }
FileAssets ==
  [ seg : FileSegs, hasQuery : BOOLEAN, query : FileQueries, name : FileNames ]

FileUrlOf(a) ==
  <<"h", "t", "t", "p", "s", ":", "/", "/", "h", "/", "p", "/">> \o a.seg
    \o (IF a.hasQuery THEN <<"?">> \o a.query ELSE <<>>)

InitFile ==
  /\ asset \in { a \in FileAssets : a.hasQuery \/ a.query = <<>> }
  /\ url = FileUrlOf(asset)
  /\ out = <<>> /\ upc = "start" /\ filename = <<>>
  /\ DownloadIdle /\ MainIdle

\* lines 320-330 of downloadAsset
File_derive ==
  /\ upc = "start"
  /\ filename' = DeriveFilename(url, asset.name)
  /\ upc' = "done"
  /\ UNCHANGED <<asset, url, out, dvars, mvars>>

NextFile == File_derive

SpecFile == InitFile /\ [][NextFile]_vars

\* ----------------------------------------------------------- the parse spec

\* JSON values as jansson hands them out: <<type>> or <<type, content>>;
\* JAbsent is the NULL that json_object_get returns for a missing key, and
\* JInvalid is a text that json_loads rejects
JAbsent == <<"absent">>
JInvalid == <<"invalid">>
JNum == <<"number">>
JStr(str) == <<"string", str>>
JObj(rec) == <<"object", rec>>
JArr(elems) == <<"array", elems>>

json_is_string(v) == v[1] = "string"
json_is_object(v) == v[1] = "object"
json_is_array(v) == v[1] = "array"

\* json_object_get: NULL for a missing key and for a non-object
json_object_get(obj, key) ==
  IF json_is_object(obj) /\ key \in DOMAIN obj[2] THEN obj[2][key] ELSE JAbsent

\* jsonGetString (lines 107-112)
jsonGetString(obj, key) ==
  LET val == json_object_get(obj, key)
  IN  IF obj = JAbsent THEN <<>>
      ELSE IF json_is_string(val) THEN val[2] ELSE <<>>

\* line 167: the test that admits a "links" entry
LinkAccepted_Either(a) == a.name # <<>> \/ a.url # <<>>
LinkAccepted(a) == a.name # <<>> /\ a.url # <<>>

\* lines 162-166: the Asset built from one "links" entry
LinkAsset(linkItem) ==
  LET direct == jsonGetString(linkItem, "direct_asset_url")
  IN  [ name |-> jsonGetString(linkItem, "name"),
        url  |-> IF direct = <<>> THEN jsonGetString(linkItem, "url")
                 ELSE direct ]

\* lines 161-169: the assets pushed for the "links" array
RECURSIVE LinkAssets(_)
LinkAssets(elems) ==
  IF elems = <<>> THEN <<>>
  ELSE (IF LinkAccepted(LinkAsset(Head(elems)))
        THEN <<LinkAsset(Head(elems))>> ELSE <<>>)
         \o LinkAssets(Tail(elems))

\* lines 177-180: the Asset built from one "sources" entry
SourceAsset(srcItem) ==
  [ name |-> <<"S", "o", "u", "r", "c", "e", " ", "(">>
               \o jsonGetString(srcItem, "format") \o <<")">>,
    url  |-> jsonGetString(srcItem, "url") ]

\* lines 176-183: the assets pushed for the "sources" array
RECURSIVE SourceAssets(_)
SourceAssets(elems) ==
  IF elems = <<>> THEN <<>>
  ELSE (IF SourceAsset(Head(elems)).url # <<>>
        THEN <<SourceAsset(Head(elems))>> ELSE <<>>)
         \o SourceAssets(Tail(elems))

\* lines 155-185: r.assets for one element of the array
ItemAssets(item) ==
  LET assetsObj == json_object_get(item, "assets")
      links     == json_object_get(assetsObj, "links")
      sources   == json_object_get(assetsObj, "sources")
  IN  IF ~json_is_object(assetsObj) THEN <<>>
      ELSE (IF json_is_array(links) THEN LinkAssets(links[2]) ELSE <<>>)
             \o (IF json_is_array(sources) THEN SourceAssets(sources[2])
                 ELSE <<>>)

\* lines 145-187: the Release built from one element of the array;
\* r.description is never assigned and stays empty
ParseItem(item) ==
  LET commitObj == json_object_get(item, "commit")
  IN  [ tag         |-> jsonGetString(item, "tag_name"),
        name        |-> jsonGetString(item, "name"),
        createdAt   |-> jsonGetString(item, "created_at"),
        commitId    |-> IF json_is_object(commitObj)
                        THEN jsonGetString(commitObj, "short_id") ELSE <<>>,
        description |-> <<>>,
        assets      |-> ItemAssets(item) ]

\* parseReleases (lines 127-192)
parseReleases(rawJson) ==
  IF rawJson = JInvalid THEN <<>>
  ELSE IF ~json_is_array(rawJson) THEN <<>>
  ELSE [ i \in 1..Len(rawJson[2]) |-> ParseItem(rawJson[2][i]) ]

\* the JSON documents tried
RECURSIVE SeqsUpTo(_, _)
SeqsUpTo(S, n) ==
  IF n = 0 THEN { <<>> }
  ELSE SeqsUpTo(S, n - 1)
         \cup { Append(q, e) : q \in { r \in SeqsUpTo(S, n - 1) : Len(r) = n - 1 },
                               e \in S }

Item(t, n, c, d, commit, assets) ==
  JObj([ tag_name |-> t, name |-> n, created_at |-> c, description |-> d,
         commit |-> commit, assets |-> assets ])

FieldItems ==
  { Item(t, n, c, d, JAbsent, JAbsent) :
      t \in { JAbsent, JStr(<<"t">>) }, n \in { JAbsent, JStr(<<"n">>) },
      c \in { JAbsent, JStr(<<"c">>) }, d \in { JAbsent, JStr(<<"d">>) } }
  \cup { Item(JNum, JStr(<<"n">>), JNum, JNum, JAbsent, JAbsent),
         Item(JStr(<<"t">>), JNum, JStr(<<"c">>), JStr(<<>>), JAbsent, JAbsent) }

CommitItems ==
  { Item(JStr(<<"t">>), JAbsent, JAbsent, JAbsent, c, JAbsent) :
      c \in { JNum, JObj([ short_id |-> JStr(<<"s">>) ]),
              JObj([ short_id |-> JNum ]) } }

LinkItems ==
  { JNum }
  \cup { JObj([ name |-> n, direct_asset_url |-> d, url |-> u ]) :
           n \in { JAbsent, JStr(<<>>), JStr(<<"n">>) },
           d \in { JAbsent, JStr(<<>>), JStr(<<"d">>) },
           u \in { JAbsent, JStr(<<"u">>) } }

SourceItems ==
  { JNum }
  \cup { JObj([ format |-> f, url |-> u ]) :
           f \in { JAbsent, JStr(<<"z", "i", "p">>) },
           u \in { JAbsent, JStr(<<>>), JStr(<<"u">>) } }

AssetsValues ==
  { JNum }
  \cup { JObj([ links |-> l, sources |-> x ]) :
           l \in { JAbsent, JNum }
                   \cup { JArr(q) : q \in SeqsUpTo(LinkItems, MaxLinks) },
           x \in { JAbsent, JNum }
                   \cup { JArr(q) : q \in SeqsUpTo(SourceItems, MaxSources) } }

AssetItems ==
  { Item(JStr(<<"t">>), JAbsent, JAbsent, JAbsent, JAbsent, a) :
      a \in AssetsValues }

SmallItems ==
  { JNum,
    Item(JStr(<<"t">>), JStr(<<"n">>), JAbsent, JStr(<<"d">>), JAbsent, JAbsent),
    Item(JStr(<<"t">>), JAbsent, JAbsent, JAbsent, JAbsent,
         JObj([ links |-> JArr(<< JObj([ name |-> JStr(<<"n">>),
                                         direct_asset_url |-> JAbsent,
                                         url |-> JStr(<<"u">>) ]) >>),
                sources |-> JArr(<< JObj([ format |-> JStr(<<"z", "i", "p">>),
                                           url |-> JStr(<<"u">>) ]) >>) ])) }

ParseInputs ==
  { JInvalid, JNum, JObj([ tag_name |-> JStr(<<"t">>) ]) }
  \cup { JArr(<<i>>) : i \in FieldItems \cup CommitItems \cup AssetItems }
  \cup { JArr(q) : q \in SeqsUpTo(SmallItems, MaxItems) }

\* what the parse spec leaves at rest in main
MainIdleButParse ==
  /\ mpc = "idle" /\ envToken = "" /\ hdrToken = "" /\ token = ""
  /\ gets = 0 /\ httpCode = 0 /\ parsed = 0
  /\ current = 0 /\ sel = 0 /\ items = 0 /\ btn = {}
  /\ dlCall = <<>> /\ screen = "none" /\ exitCode = -1

InitParse ==
  /\ body \in ParseInputs
  /\ releases = <<>>
  /\ asset = <<>> /\ url = <<>> /\ out = <<>> /\ filename = <<>>
  /\ upc = "start"
  /\ DownloadIdle /\ MainIdleButParse

\* parseReleases(rawJson), lines 127-192
Parse_run ==
  /\ upc = "start"
  /\ releases' = parseReleases(body)
  /\ upc' = "done"
  /\ UNCHANGED <<dvars, asset, url, out, filename, mpc, envToken, hdrToken,
                 token, gets, httpCode, body, parsed, current, sel, items,
                 btn, dlCall, screen, exitCode>>

NextParse == Parse_run

SpecParse == InitParse /\ [][NextParse]_vars

\* the string a field of an array element holds: its value when the
\* element is an object whose field is a string, the empty string otherwise
FieldString(item, key) ==
  IF item[1] = "object" /\ key \in DOMAIN item[2] /\ item[2][key][1] = "string"
  THEN item[2][key][2] ELSE <<>>


\* ------------------------------------------------------------ the main spec

\* getenv's null result, and the placeholder of line 460
NullEnv == "NULL"
Placeholder == "YOUR_ACTUAL_GITLAB_TOKEN_HERE"

\* the environment variable and the macro of token.h tried
EnvTokens == { NullEnv, "", Placeholder, "glpat" }
HdrTokens == { "", Placeholder, "glpat" }

\* line 458: envToken && *envToken ? envToken : GITLAB_PRIVATE_TOKEN
TokenOf(env, hdr) == IF env # NullEnv /\ env # "" THEN env ELSE hdr

\* line 460: token.empty() || token == "YOUR_ACTUAL_GITLAB_TOKEN_HERE"
TokenRejected_EmptyOnly(t) == t = ""
TokenRejected(t) == t = "" \/ t = Placeholder

\* line 524: choice >= 0 && choice < (int)names.size() - 1
ShouldDownload_WithBack(choice, nNames) == choice >= 0 /\ choice < nNames
ShouldDownload(choice, nNames) == choice >= 0 /\ choice < nNames - 1

\* the buttons main's loop and runMenu look at
Buttons == { "Plus", "X", "Down", "Right", "Up", "Left" }
MenuButtons == { "Down", "Up", "A", "B" }

\* the responses tried: status codes and bodies; a catalog is an array of
\* releases with 0..MaxAssets link assets each
HttpCodes == { 200, 404 }
CatalogItem(k) ==
  Item(JStr(<<"t">>), JAbsent, JAbsent, JAbsent, JAbsent,
       JObj([ links |-> JArr([ i \in 1..k |->
                                 JObj([ name |-> JStr(<<"n">>),
                                        direct_asset_url |-> JStr(<<"d">>),
                                        url |-> JAbsent ]) ]),
              sources |-> JAbsent ]))
MainBodies ==
  { JInvalid, JArr(<<>>) }
  \cup { JArr([ i \in 1..Len(q) |-> CatalogItem(q[i]) ]) :
           q \in SeqsUpTo(0..MaxAssets, MaxReleases) \ { <<>> } }

\* int + size_t arithmetic of lines 250-252 and 531-536: the int operand
\* is converted to size_t and the sum wraps modulo 2^64 before %; for
\* 0 <= v < n this is the mathematical value below
WrapNext(v, n) == (v + 1) % n
WrapPrev(v, n) == (v - 1 + n) % n

InitMain ==
  /\ mpc = "start"
  /\ envToken \in EnvTokens /\ hdrToken \in HdrTokens /\ token = ""
  /\ gets = 0 /\ httpCode = 0 /\ body = <<>> /\ parsed = 0
  /\ releases = <<>> /\ current = 0 /\ sel = 0 /\ items = 0 /\ btn = {}
  /\ dlCall = <<>> /\ screen = "none" /\ exitCode = -1
  /\ asset = <<>> /\ url = <<>> /\ out = <<>> /\ upc = "idle"
  /\ filename = <<>>
  /\ DownloadIdle

\* what main's steps leave alone: the locals of downloadAsset other than
\* applet and exited, and the inputs of the other specs
MainSame ==
  UNCHANGED <<tpc, ppc, done, canceled, dl_total, dl_now, res, fileExists,
              fileBytes, size, known, recv, ticks, status,
              cancelledInFlight, uvars, filename, envToken, hdrToken>>

\* lines 441-452: console and socket initialisation
Main_init ==
  /\ ~exited /\ mpc = "start"
  /\ \E socketOk \in BOOLEAN :
       IF socketOk THEN /\ mpc' = "token" /\ exitCode' = exitCode
                   ELSE /\ mpc' = "ended" /\ exitCode' = 1
  /\ UNCHANGED <<token, gets, httpCode, body, parsed, releases, current, sel,
                 items, btn, dlCall, screen, applet, exited>>
  /\ MainSame

\* lines 454-463 and 480-481: the token and its rejection
Main_token ==
  /\ ~exited /\ mpc = "token"
  /\ token' = TokenOf(envToken, hdrToken)
  /\ IF TokenRejected(token')
     THEN /\ screen' = "missing_token" /\ mpc' = "reject"
     ELSE /\ screen' = "fetching" /\ mpc' = "fetch_init"
  /\ UNCHANGED <<gets, httpCode, body, parsed, releases, current, sel, items,
                 btn, dlCall, exitCode, applet, exited>>
  /\ MainSame

\* lines 465-477: wait for [+] (or for the applet to stop), return 1
Main_reject_wait ==
  /\ ~exited /\ mpc = "reject"
  /\ \E r \in (IF applet THEN BOOLEAN ELSE {FALSE}) : applet' = r
  /\ mpc' = "ended" /\ exitCode' = 1
  /\ UNCHANGED <<token, gets, httpCode, body, parsed, releases, current, sel,
                 items, btn, dlCall, screen, exited>>
  /\ MainSame

\* line 199, constructor lines 48-53: a null handle ends the process
Fetch_CurlEasy ==
  /\ ~exited /\ mpc = "fetch_init"
  /\ \E handle \in BOOLEAN :
       IF handle THEN /\ mpc' = "fetch_perform" /\ exited' = exited
                 ELSE /\ mpc' = mpc /\ exited' = TRUE
  /\ UNCHANGED <<token, gets, httpCode, body, parsed, releases, current, sel,
                 items, btn, dlCall, screen, exitCode, applet>>
  /\ MainSame

\* lines 200-215, performOrExit lines 72-78: the one GET; a transport
\* error ends the process, otherwise the status code and body are in
Fetch_performOrExit ==
  /\ ~exited /\ mpc = "fetch_perform"
  /\ gets' = gets + 1
  /\ \E ok \in BOOLEAN :
       IF ok
       THEN /\ httpCode' \in HttpCodes /\ body' \in MainBodies
            /\ mpc' = "fetch_code" /\ exited' = exited
       ELSE /\ UNCHANGED <<httpCode, body, mpc>> /\ exited' = TRUE
  /\ UNCHANGED <<token, parsed, releases, current, sel, items, btn, dlCall,
                 screen, exitCode, applet>>
  /\ MainSame

\* lines 219-224: a status other than 200 returns {}, 200 returns
\* parseReleases(buf.data)
Fetch_return_ParsesAnyway ==
  /\ ~exited /\ mpc = "fetch_code"
  /\ releases' = parseReleases(body) /\ parsed' = parsed + 1
  /\ mpc' = "fetched"
  /\ UNCHANGED <<token, gets, httpCode, body, current, sel, items, btn,
                 dlCall, screen, exitCode, applet, exited>>
  /\ MainSame
Fetch_return ==
  /\ ~exited /\ mpc = "fetch_code"
  /\ IF httpCode # 200
     THEN /\ releases' = <<>> /\ parsed' = parsed
     ELSE /\ releases' = parseReleases(body) /\ parsed' = parsed + 1
  /\ mpc' = "fetched"
  /\ UNCHANGED <<token, gets, httpCode, body, current, sel, items, btn,
                 dlCall, screen, exitCode, applet, exited>>
  /\ MainSame

\* lines 483-487 and 504-508: the empty catalog screen or the first release
Main_releases ==
  /\ ~exited /\ mpc = "fetched"
  /\ IF releases = <<>>
     THEN /\ screen' = "no_releases" /\ mpc' = "empty" /\ current' = current
     ELSE /\ screen' = "release" /\ mpc' = "browse" /\ current' = 0
  /\ UNCHANGED <<token, gets, httpCode, body, parsed, releases, sel, items,
                 btn, dlCall, exitCode, applet, exited>>
  /\ MainSame

\* lines 489-501: wait for [+] (or for the applet to stop), return 0
Main_empty_wait ==
  /\ ~exited /\ mpc = "empty"
  /\ \E r \in (IF applet THEN BOOLEAN ELSE {FALSE}) : applet' = r
  /\ mpc' = "ended" /\ exitCode' = 0
  /\ UNCHANGED <<token, gets, httpCode, body, parsed, releases, current, sel,
                 items, btn, dlCall, screen, exited>>
  /\ MainSame

\* lines 510-523 and 544-547: one turn of the browsing loop up to the call
\* of runMenu (whose lines 231-242 set sel = 0)
Main_loop ==
  /\ ~exited /\ mpc = "browse"
  /\ \E r \in (IF applet THEN BOOLEAN ELSE {FALSE}) :
       /\ applet' = r
       /\ IF ~r
          THEN /\ mpc' = "ended" /\ exitCode' = 0
               /\ UNCHANGED <<btn, sel, items>>
          ELSE \E b \in SUBSET Buttons :
                 /\ btn' = b
                 /\ IF "Plus" \in b
                    THEN /\ mpc' = "ended" /\ exitCode' = 0
                         /\ UNCHANGED <<sel, items>>
                    ELSE IF "X" \in b /\ releases[current + 1].assets # <<>>
                    THEN /\ mpc' = "menu" /\ sel' = 0
                         /\ items' = Len(releases[current + 1].assets) + 1
                         /\ exitCode' = exitCode
                    ELSE /\ mpc' = "nav"
                         /\ UNCHANGED <<sel, items, exitCode>>
  /\ UNCHANGED <<token, gets, httpCode, body, parsed, releases, current,
                 dlCall, screen, exited>>
  /\ MainSame

\* runMenu lines 244-270 and main lines 523-526: one turn of the menu
\* loop; A returns sel, B and a stopped applet return -1, and the choice
\* of an asset calls downloadAsset
Menu_loop ==
  /\ ~exited /\ mpc = "menu"
  /\ \E r \in (IF applet THEN BOOLEAN ELSE {FALSE}) :
       /\ applet' = r
       /\ IF ~r
          THEN /\ mpc' = "nav" /\ UNCHANGED <<sel, dlCall>>
          ELSE \E mb \in SUBSET MenuButtons :
                 LET s1 == IF "Down" \in mb THEN WrapNext(sel, items) ELSE sel
                     s2 == IF "Up" \in mb THEN WrapPrev(s1, items) ELSE s1
                     choice == IF "A" \in mb THEN s2 ELSE -1
                 IN  /\ sel' = s2
                     /\ IF "A" \in mb \/ "B" \in mb
                        THEN IF ShouldDownload(choice, items)
                             THEN /\ dlCall' = <<current, choice>>
                                  /\ mpc' = "download"
                             ELSE /\ dlCall' = dlCall /\ mpc' = "nav"
                        ELSE /\ dlCall' = dlCall /\ mpc' = mpc
  /\ UNCHANGED <<token, gets, httpCode, body, parsed, releases, current,
                 items, btn, screen, exitCode, exited>>
  /\ MainSame

\* line 525: downloadAsset runs to its end (its steps are those of Spec);
\* a null curl handle in its transfer thread ends the process (lines 48-53)
Main_downloadAsset ==
  /\ ~exited /\ mpc = "download"
  /\ \E r \in (IF applet THEN BOOLEAN ELSE {FALSE}) : applet' = r
  /\ \E handle \in BOOLEAN :
       IF handle THEN /\ mpc' = "nav" /\ exited' = exited
                 ELSE /\ mpc' = mpc /\ exited' = TRUE
  /\ UNCHANGED <<token, gets, httpCode, body, parsed, releases, current, sel,
                 items, btn, dlCall, screen, exitCode>>
  /\ MainSame

\* lines 527-541: Down/Right then Up/Left move current, with wrap-around
Main_nav ==
  /\ ~exited /\ mpc = "nav"
  /\ LET n  == Len(releases)
         c1 == IF btn \cap {"Down", "Right"} # {} THEN WrapNext(current, n)
               ELSE current
         c2 == IF btn \cap {"Up", "Left"} # {} THEN WrapPrev(c1, n) ELSE c1
     IN  current' = c2
  /\ screen' = "release" /\ mpc' = "browse"
  /\ UNCHANGED <<token, gets, httpCode, body, parsed, releases, sel, items,
                 btn, dlCall, exitCode, applet, exited>>
  /\ MainSame

NextMain ==
  \/ Main_init \/ Main_token \/ Main_reject_wait
  \/ Fetch_CurlEasy \/ Fetch_performOrExit \/ Fetch_return
  \/ Main_releases \/ Main_empty_wait
  \/ Main_loop \/ Menu_loop \/ Main_downloadAsset \/ Main_nav

SpecMain == InitMain /\ [][NextMain]_vars

\* ------------------------------------------------------------ the claims

Reported == status # "none"

\* C1: whenever the status line is Cancelled or Failed, the destination
\* file does not exist at the moment the line is produced.
C1_NoFileOnCancelledOrFailed ==
  status \in {"Cancelled", "Failed"} => ~fileExists

\* C2: whenever the status line is Succeeded, the destination file exists
\* and the transfer did not return an error.
C2_SucceededMeansKept ==
  status = "Succeeded" => (fileExists /\ res = "CURLE_OK")

\* C3: if canceled is set while curl_easy_perform is running with some
\* bytes received, the status line is Cancelled and the destination file
\* does not exist when it is produced.
C3_CancelInFlight ==
  (Reported /\ cancelledInFlight) => (status = "Cancelled" /\ ~fileExists)

C3_Witness ==
  /\ status = "Cancelled" /\ cancelledInFlight /\ ~fileExists
  /\ res = "CURLE_ABORTED_BY_CALLBACK" /\ dl_now > 0

\* C4: when the transport reports a positive total, delivers the whole
\* body without error and B is never pressed, the status line is Succeeded
\* and the destination file exists and holds the whole body.
C4_CompleteKnownTotal ==
  (Reported /\ known /\ size > 0 /\ res = "CURLE_OK" /\ ~canceled)
    => (status = "Succeeded" /\ fileExists /\ fileBytes = size)

C4_Witness ==
  /\ status = "Succeeded" /\ known /\ size = MaxBytes /\ res = "CURLE_OK"
  /\ ~canceled /\ fileExists /\ fileBytes = size

\* C5: when the server never reports a total, the stream ends without a
\* transport error and B is never pressed, the status line is Succeeded.
C5_UnknownTotalSucceeds ==
  (Reported /\ ~known /\ res = "CURLE_OK" /\ ~canceled)
    => status = "Succeeded"

\* C6: the outcome is classified and the status line produced only after
\* the transfer thread has exited, also when the loop ended because the
\* applet main loop stopped.
C6_JoinBeforeReport ==
  (ppc \in {"report", "reported", "returned"} \/ Reported) => tpc = "exited"

C6_Witness ==
  /\ Reported /\ tpc = "exited" /\ ~applet /\ res = "CURLE_OK"

\* C7 as stated: the polling loop is left only after the transfer thread
\* has set the completion flag.
C7_LeftOnlyWhenDone ==
  [][(ppc = "cond" /\ ppc' = "join") => done]_vars

\* C7 as amended: the polling loop is left only when the completion flag
\* is set or appletMainLoop() has returned false; a cancellation does not
\* end it.
C7_LeftOnlyWhenDoneOrAppletStopped ==
  [][(ppc = "cond" /\ ppc' = "join") => (done \/ ~applet')]_vars

C7_Witness ==
  /\ ppc = "join" /\ canceled /\ done /\ applet

\* C8: canceled is written only by the polling loop and never goes back to
\* false; dl_total and dl_now are written only by the transfer thread,
\* inside curl_easy_perform.
C8_SingleWriter ==
  [][ /\ (canceled => canceled')
      /\ (canceled' # canceled => (ppc = "body" /\ tpc' = tpc))
      /\ (<<dl_total, dl_now>>' # <<dl_total, dl_now>>
            => (tpc = "perform" /\ ppc' = ppc /\ canceled' = canceled))
    ]_vars

C8_Witness ==
  /\ canceled /\ dl_now > 0 /\ tpc = "exited"

\* C9: under fair scheduling of both threads every started download
\* eventually produces its status line.
C9_ReachesOutcome == <>Reported

\* C10: every job-artifact URL is rewritten to
\* <scheme>://<host>/api/v4/projects/<project, '/' as %2F>/jobs/<jobId>/artifacts/<rest>,
\* the job id standing unchanged between "/jobs/" and "/artifacts/".
C10_RewriteKeepsJobId ==
  (upc = "done" /\ asset.kind = "job") => out = ApiUrlOf(asset)

\* C11: the rewrite is idempotent on every job-artifact URL (rewriting the
\* rewritten URL returns it unchanged), and a URL that is not of the
\* job-artifact form is returned unchanged.
C11_RewriteIdempotent ==
  upc = "done" =>
    IF asset.kind \in {"job", "nested"} THEN RewriteUrl(out) = out
    ELSE out = url

\* C12: for a URL whose last path segment is s and which carries a query
\* string (whatever its characters, '/' included), the filename is s
\* without the query and with each forbidden character replaced by '_'.
C12_FilenameIsLastSegment ==
  (upc = "done" /\ asset.hasQuery /\ asset.seg # <<>>)
    => filename = Sanitize(asset.seg)

\* C13: when the last path segment without its query string is empty, the
\* filename is the asset's display name (with forbidden characters
\* replaced); so with a non-empty name the filename is never empty.
C13_FallbackToName ==
  upc = "done" =>
    /\ (asset.seg = <<>> => filename = Sanitize(asset.name))
    /\ (asset.name # <<>> => filename # <<>>)

\* C14: for a valid JSON array parseReleases returns no more elements than
\* the array has, and every Asset of every Release has a non-empty name
\* and a non-empty url.
C14_AssetsWellFormed ==
  (upc = "done" /\ json_is_array(body)) =>
    /\ Len(releases) <= Len(body[2])
    /\ \A i \in 1..Len(releases) :
         \A j \in 1..Len(releases[i].assets) :
           /\ releases[i].assets[j].name # <<>>
           /\ releases[i].assets[j].url # <<>>

C14_Witness ==
  /\ upc = "done" /\ json_is_array(body) /\ Len(releases) = 1
  /\ Len(releases[1].assets) = 1
  /\ json_is_array(json_object_get(json_object_get(body[2][1], "assets"), "links"))
  /\ Len(json_object_get(json_object_get(body[2][1], "assets"), "links")[2]) = 1
  /\ json_is_array(json_object_get(json_object_get(body[2][1], "assets"), "sources"))
  /\ Len(json_object_get(json_object_get(body[2][1], "assets"), "sources")[2]) = 1

\* C15: every Release has tag, name, createdAt and description equal to
\* the string values of tag_name, name, created_at and description of its
\* array element, and empty where the field is absent or not a string.
C15_FieldsExtracted ==
  (upc = "done" /\ json_is_array(body)) =>
    /\ Len(releases) = Len(body[2])
    /\ \A i \in 1..Len(releases) :
         /\ releases[i].tag = FieldString(body[2][i], "tag_name")
         /\ releases[i].name = FieldString(body[2][i], "name")
         /\ releases[i].createdAt = FieldString(body[2][i], "created_at")
         /\ releases[i].description = FieldString(body[2][i], "description")

\* C16: no failure path of the catalog fetch or of the download ends the
\* process; every failure leads to a screen, never to a process exit.
C16_NeverExits == ~exited

\* C17: fetchReleases issues exactly one GET; for a status other than 200
\* it returns the empty sequence without handing the body to
\* parseReleases, and main then shows the "no releases" screen.
C17_Non200IsEmpty ==
  /\ gets <= 1
  /\ (mpc \in {"fetched", "empty", "browse", "menu", "download", "nav"}
        => gets = 1)
  /\ (httpCode # 200 /\ mpc \in {"fetched", "empty", "ended"})
        => (releases = <<>> /\ parsed = 0)
  /\ (httpCode # 200 /\ gets = 1 /\ ~exited)
        => mpc \in {"fetch_code", "fetched", "empty", "ended"}
  /\ (httpCode # 200 /\ gets = 1 /\ mpc \in {"empty", "ended"})
        => screen = "no_releases"

C17_Witness ==
  /\ mpc = "empty" /\ httpCode = 404 /\ gets = 1 /\ parsed = 0
  /\ screen = "no_releases" /\ releases = <<>>
  /\ json_is_array(body) /\ Len(body[2]) = MaxReleases

\* C18: with a missing (empty) or placeholder token main halts on the
\* rejection path and no request, catalog fetch or download, is issued.
C18_RejectedTokenNoNetwork ==
  TokenOf(envToken, hdrToken) \in {"", Placeholder} =>
    /\ gets = 0 /\ dlCall = <<>>
    /\ mpc \in {"start", "token", "reject", "ended"}
    /\ (mpc = "reject" => screen = "missing_token")
    /\ (mpc = "ended" => exitCode = 1)

C18_Witness ==
  /\ mpc = "ended" /\ exitCode = 1 /\ screen = "missing_token"
  /\ envToken = "" /\ hdrToken = Placeholder /\ token = Placeholder
  /\ gets = 0

\* C19: on every exit path of the transfer thread the completion flag is
\* set exactly once, by the transfer thread only, and only after the file
\* has been kept or removed, so that the file no longer changes once done
\* is true.
C19_DoneSetOnceAtEnd ==
  [][ /\ (done' # done
            => (~done /\ done' /\ tpc \in {"open", "setdone"}
                  /\ tpc' = "cleanup" /\ ppc' = ppc))
      /\ ((tpc # "cleanup" /\ tpc' = "cleanup") => (~done /\ done'))
      /\ (tpc' = "exited" => done')
      /\ (done => (fileExists' = fileExists /\ fileBytes' = fileBytes))
    ]_vars

C19_Witness ==
  /\ tpc = "exited" /\ done /\ res = "CURLE_ABORTED_BY_CALLBACK"
  /\ ~fileExists /\ ppc = "body"

\* C20: in the browsing loop current stays within 0..N-1, the menu
\* selection within 0..M-1, and downloadAsset is called only with the
\* index of an existing asset of the current release.
C20_IndicesInRange ==
  /\ (mpc \in {"browse", "menu", "download", "nav"}
        => (current >= 0 /\ current < Len(releases)))
  /\ (mpc = "menu"
        => (/\ sel >= 0 /\ sel < items
            /\ items = Len(releases[current + 1].assets) + 1))
  /\ (dlCall # <<>>
        => (/\ dlCall[1] >= 0 /\ dlCall[1] < Len(releases)
            /\ dlCall[2] >= 0
            /\ dlCall[2] < Len(releases[dlCall[1] + 1].assets)))
  /\ (mpc = "download" => dlCall[1] = current)

C20_Witness ==
  /\ mpc = "nav" /\ Len(releases) = MaxReleases
  /\ current = Len(releases) - 1
  /\ dlCall = <<current, Len(releases[current + 1].assets) - 1>>
  /\ dlCall[2] = MaxAssets - 1
  /\ "Down" \in btn

====
